---- MODULE Spec2Model ----
(***************************************************************************)
(* Model of cmd/config/main.go: the HTTP handlers of the endpoint          *)
(* configuration registry (getEndpoint, postEndpoint, getEndpoints) and    *)
(* the Valkey hash store they read and write.                              *)
(*                                                                         *)
(* Strings whose characters the code inspects (request URLs, identifiers,  *)
(* store keys, decimal numerals, durations) are sequences of one-character *)
(* strings.  Strings the code only passes around (method, url) are TLA+    *)
(* strings.                                                                *)
(***************************************************************************)
EXTENDS Integers, Sequences, FiniteSets, TLC

VARIABLES
    store,    \* the Valkey database: key -> hash
    pc,       \* per connection: where its handler stands
    req,      \* per connection: the request being (or last) handled
    local,    \* per connection: the handler's local variables
    resp,     \* per connection: the response written
    latest,   \* the connection that accepted the most recent request
    prev,     \* the connection that accepted the request before that
    created,  \* per identifier: how many 201 responses were sent
    nreq      \* how many requests have been accepted

vars == <<store, pc, req, local, resp, latest, prev, created, nreq>>

\* The number of requests the clients send in one behaviour.
MaxRequests == 3

\* The connections the transport layer serves concurrently.
Procs == {"c1", "c2"}

\* ------------------------------------------------------- character classes

Lower == {"a", "b", "c", "d", "e", "f", "g", "h", "i", "j", "k", "l", "m",
          "n", "o", "p", "q", "r", "s", "t", "u", "v", "w", "x", "y", "z"}

Digit == {"0", "1", "2", "3", "4", "5", "6", "7", "8", "9"}

DigitVal(c) ==
    CASE c = "0" -> 0 [] c = "1" -> 1 [] c = "2" -> 2 [] c = "3" -> 3
      [] c = "4" -> 4 [] c = "5" -> 5 [] c = "6" -> 6 [] c = "7" -> 7
      [] c = "8" -> 8 [] c = "9" -> 9

DigitChar(d) ==
    CASE d = 0 -> "0" [] d = 1 -> "1" [] d = 2 -> "2" [] d = 3 -> "3"
      [] d = 4 -> "4" [] d = 5 -> "5" [] d = 6 -> "6" [] d = 7 -> "7"
      [] d = 8 -> "8" [] d = 9 -> "9"

HasPrefix(s, p) == Len(s) >= Len(p) /\ SubSeq(s, 1, Len(p)) = p

TrimPrefix(s, p) == SubSeq(s, Len(p) + 1, Len(s))

\* ------------------------------------------------------ strconv.Itoa / Atoi

RECURSIVE NatDigits(_)
NatDigits(n) ==
    IF n < 10 THEN <<DigitChar(n)>>
    ELSE Append(NatDigits(n \div 10), DigitChar(n % 10))

\* strconv.Itoa: the decimal numeral of an int.
Itoa(n) == IF n < 0 THEN <<"-">> \o NatDigits(-n) ELSE NatDigits(n)

RECURSIVE DigitsVal(_)
DigitsVal(s) ==
    IF s = <<>> THEN 0
    ELSE 10 * DigitsVal(SubSeq(s, 1, Len(s) - 1)) + DigitVal(s[Len(s)])

AllDigits(s) == Len(s) >= 1 /\ \A i \in 1..Len(s) : s[i] \in Digit

\* The number of digits a text starts with.
RECURSIVE LeadingDigits(_)
LeadingDigits(s) ==
    IF s # <<>> /\ Head(s) \in Digit THEN 1 + LeadingDigits(Tail(s)) ELSE 0

\* A Go int is held as its decimal numeral (what strconv.Itoa prints),
\* because its 64 bits exceed the integers of the checker.

\* A digit text without its leading zeros.
RECURSIVE StripZeros(_)
StripZeros(d) ==
    IF Len(d) > 1 /\ Head(d) = "0" THEN StripZeros(Tail(d)) ELSE d

\* a < b for two digit texts without leading zeros.
NumeralLess(a, b) ==
    \/ Len(a) < Len(b)
    \/ /\ Len(a) = Len(b)
       /\ \E i \in 1..Len(a) :
             /\ DigitVal(a[i]) < DigitVal(b[i])
             /\ \A j \in 1..(i - 1) : a[j] = b[j]

\* 1<<64 - 1, 1<<63 - 1 and 1<<63.
MaxUint64 ==
    <<"1", "8", "4", "4", "6", "7", "4", "4", "0", "7",
      "3", "7", "0", "9", "5", "5", "1", "6", "1", "5">>

MaxInt64 ==
    <<"9", "2", "2", "3", "3", "7", "2", "0", "3", "6",
      "8", "5", "4", "7", "7", "5", "8", "0", "7">>

MinInt64Magnitude ==
    <<"9", "2", "2", "3", "3", "7", "2", "0", "3", "6",
      "8", "5", "4", "7", "7", "5", "8", "0", "8">>

\* strconv.Atoi on a 64-bit build. The text is read left to right after
\* an optional sign: the first character that is not a digit is a syntax
\* error with value 0, unless the digits before it already exceed 64 bits,
\* which is a range error met first; a numeral outside int64 is a range
\* error too. A range error comes with the nearest int64.
Atoi(s) ==
    LET neg == s # <<>> /\ s[1] = "-"
        d   == IF s # <<>> /\ s[1] \in {"+", "-"} THEN Tail(s) ELSE s
        n   == LeadingDigits(d)
        un  == StripZeros(SubSeq(d, 1, n))
        lim == IF neg THEN <<"-">> \o MinInt64Magnitude ELSE MaxInt64
    IN  IF n >= 1 /\ NumeralLess(MaxUint64, un)
        THEN [err |-> TRUE, val |-> lim]
        ELSE IF n = 0 \/ n < Len(d)
        THEN [err |-> TRUE, val |-> <<"0">>]
        ELSE IF ~neg /\ NumeralLess(MaxInt64, un)
        THEN [err |-> TRUE, val |-> lim]
        ELSE IF neg /\ NumeralLess(MinInt64Magnitude, un)
        THEN [err |-> TRUE, val |-> lim]
        ELSE [err |-> FALSE,
              val |-> IF neg /\ un # <<"0">> THEN <<"-">> \o un ELSE un]

\* The residue of a digit text modulo m.
RECURSIVE NumeralMod(_, _)
NumeralMod(d, m) ==
    IF d = <<>> THEN 0
    ELSE (10 * NumeralMod(SubSeq(d, 1, Len(d) - 1), m) + DigitVal(d[Len(d)])) % m

\* Truncation of an int (as numeral) to its low bits, as a number.
Truncate(v, m) ==
    IF Head(v) = "-" THEN (m - NumeralMod(Tail(v), m)) % m
    ELSE NumeralMod(v, m)

\* Go's conversions uint16(int) and uint8(int): truncation to the width.
Uint16(v) == Truncate(v, 65536)

Uint8(v) == Truncate(v, 256)

\* An int (as numeral) lies in 0..max, for max below 100000.
IntWithin(v, max) ==
    Head(v) # "-" /\ Len(v) <= 5 /\ DigitsVal(v) <= max

\* ------------------------------------------- time.ParseDuration / String
\* Durations are whole seconds; the units modelled are h, m and s.

UnitSeconds(u) == CASE u = "h" -> 3600 [] u = "m" -> 60 [] u = "s" -> 1

\* time.ParseDuration: one or more groups <decimal><unit>, summed.
RECURSIVE ParseDuration(_)
ParseDuration(s) ==
    LET n == LeadingDigits(s) IN
    IF n = 0 \/ Len(s) < n + 1 \/ s[n + 1] \notin {"h", "m", "s"}
    THEN [err |-> TRUE, val |-> 0]
    ELSE LET v    == DigitsVal(SubSeq(s, 1, n)) * UnitSeconds(s[n + 1])
             rest == SubSeq(s, n + 2, Len(s))
         IN  IF rest = <<>> THEN [err |-> FALSE, val |-> v]
             ELSE LET r == ParseDuration(rest)
                  IN  IF r.err THEN r ELSE [err |-> FALSE, val |-> v + r.val]

\* time.Duration.String: "0s", "45s", "1m0s", "1h0m0s".
DurationString(d) ==
    LET h  == d \div 3600
        m  == (d % 3600) \div 60
        sc == d % 60
    IN  IF h > 0
        THEN NatDigits(h) \o <<"h">> \o NatDigits(m) \o <<"m">> \o NatDigits(sc) \o <<"s">>
        ELSE IF m > 0
             THEN NatDigits(m) \o <<"m">> \o NatDigits(sc) \o <<"s">>
             ELSE NatDigits(sc) \o <<"s">>

\* ------------------------------------------------ url.Parse / URL.String
\* A raw URL is the pair (text before the first colon, text after it).
\* url.Parse rejects an empty scheme ("missing protocol scheme") and lowers
\* the scheme's case; URL.String joins the two parts again.

ToLower(s) ==
    CASE s = "HTTP" -> "http" [] s = "HTTPS" -> "https" [] OTHER -> s

UrlParse(raw) ==
    IF raw.scheme = "" THEN [err |-> TRUE, val |-> raw]
    ELSE [err |-> FALSE,
          val |-> [scheme |-> ToLower(raw.scheme), rest |-> raw.rest]]

UrlString(u) == [scheme |-> u.scheme, rest |-> u.rest]

\* ------------------------------------------------- identifier validation

EndpointsPrefix == <<"/", "e", "n", "d", "p", "o", "i", "n", "t", "s", "/">>

EndpointsPath == <<"/", "e", "n", "d", "p", "o", "i", "n", "t", "s">>

\* The submatch of ^/endpoints/([a-z][-a-z0-9]+)$ : a lowercase letter
\* followed by one or more of lowercase letter, digit, hyphen.
MatchesIdentifierPattern(id) ==
    /\ Len(id) >= 2
    /\ id[1] \in Lower
    /\ \A i \in 2..Len(id) : id[i] \in Lower \cup Digit \cup {"-"}

\* extractEndpointIdentifier: the capture group, or an error.
extractEndpointIdentifier(endpoint) ==
    IF HasPrefix(endpoint, EndpointsPrefix)
       /\ MatchesIdentifierPattern(TrimPrefix(endpoint, EndpointsPrefix))
    THEN [err |-> FALSE, val |-> TrimPrefix(endpoint, EndpointsPrefix)]
    ELSE [err |-> TRUE, val |-> <<>>]

\* ------------------------------------------------------- endpoint records

FieldNames == {"identifier", "url", "method", "status_online", "frequency",
               "fail_after"}

\* meow.EndpointFromJSON: decodes the structured form.  Fails on invalid
\* JSON, an unparsable URL or duration, and a number outside its width.
\* The identifier is taken as it is.
EndpointFromJSON(body) ==
    LET u == UrlParse(body.url)
        f == ParseDuration(body.frequency)
    IN  IF \/ ~body.json
           \/ u.err
           \/ f.err
           \/ body.status_online \notin 0..65535
           \/ body.fail_after \notin 0..255
        THEN [err |-> TRUE]
        ELSE [err |-> FALSE,
              val |-> [Identifier   |-> body.identifier,
                       URL          |-> u.val,
                       Method       |-> body.method,
                       StatusOnline |-> body.status_online,
                       Frequency    |-> f.val,
                       FailAfter    |-> body.fail_after]]

\* FlatFields with the last pair left out of the HSET command.
FlatFieldsWithoutFailAfter(endpoint) ==
    [identifier    |-> endpoint.Identifier,
     url           |-> UrlString(endpoint.URL),
     method        |-> endpoint.Method,
     status_online |-> Itoa(endpoint.StatusOnline),
     frequency     |-> DurationString(endpoint.Frequency)]

\* The field/value pairs postEndpoint passes to HSET.
FlatFields(endpoint) ==
    [identifier    |-> endpoint.Identifier,
     url           |-> UrlString(endpoint.URL),
     method        |-> endpoint.Method,
     status_online |-> Itoa(endpoint.StatusOnline),
     frequency     |-> DurationString(endpoint.Frequency),
     fail_after    |-> Itoa(endpoint.FailAfter)]

\* meow.EndpointFromMap: decodes the flat form; fails when a field is
\* missing or cannot be parsed.
EndpointFromMap(kvs) ==
    IF DOMAIN kvs # FieldNames THEN [err |-> TRUE]
    ELSE LET u == UrlParse(kvs["url"])
             f == ParseDuration(kvs["frequency"])
             s == Atoi(kvs["status_online"])
             a == Atoi(kvs["fail_after"])
         IN  IF \/ u.err \/ f.err \/ s.err \/ a.err
                \/ ~IntWithin(s.val, 65535)
                \/ ~IntWithin(a.val, 255)
             THEN [err |-> TRUE]
             ELSE [err |-> FALSE,
                   val |-> [Identifier   |-> kvs["identifier"],
                            URL          |-> u.val,
                            Method       |-> kvs["method"],
                            StatusOnline |-> DigitsVal(s.val),
                            Frequency    |-> f.val,
                            FailAfter    |-> DigitsVal(a.val)]]

\* Endpoint.JSON: the structured form of a record.
EndpointJSON(endpoint) ==
    [identifier    |-> endpoint.Identifier,
     url           |-> UrlString(endpoint.URL),
     method        |-> endpoint.Method,
     status_online |-> endpoint.StatusOnline,
     frequency     |-> DurationString(endpoint.Frequency),
     fail_after    |-> endpoint.FailAfter]

\* A Go map read m[k]: the zero value "" when the key is absent.
MapGet(kvs, k) == IF k \in DOMAIN kvs THEN kvs[k] ELSE <<>>

\* ListPayload with fail_after parsed from the status_online value.
ListPayloadWrongField(kvs) ==
    [identifier    |-> MapGet(kvs, "identifier"),
     url           |-> MapGet(kvs, "url"),
     method        |-> MapGet(kvs, "method"),
     status_online |-> Uint16(Atoi(MapGet(kvs, "status_online")).val),
     frequency     |-> MapGet(kvs, "frequency"),
     fail_after    |-> Uint8(Atoi(MapGet(kvs, "status_online")).val)]

\* The EndpointPayload getEndpoints builds from one hash (lines 197-206):
\* the two numbers are parsed with the error dropped, so that whatever
\* value Atoi returned with its error is used, then truncated.
ListPayload(kvs) ==
    [identifier    |-> MapGet(kvs, "identifier"),
     url           |-> MapGet(kvs, "url"),
     method        |-> MapGet(kvs, "method"),
     status_online |-> Uint16(Atoi(MapGet(kvs, "status_online")).val),
     frequency     |-> MapGet(kvs, "frequency"),
     fail_after    |-> Uint8(Atoi(MapGet(kvs, "fail_after")).val)]

\* ------------------------------------------------------------- the store
\* The store maps each existing key to its hash (field name -> value).

KeyPrefix == <<"e", "n", "d", "p", "o", "i", "n", "t", ":">>

\* EndpointKey with the identifier left off: one key for all records.
EndpointKeyWithoutIdentifier(identifier) == KeyPrefix

EndpointKey(identifier) == KeyPrefix \o identifier

EmptyMap == [f \in {} |-> <<>>]

\* Hgetall that never finds a hash.
HgetallNeverFinds(st, key) == EmptyMap

\* HGETALL: the hash under the key, the empty map when there is none.
Hgetall(st, key) == IF key \in DOMAIN st THEN st[key] ELSE EmptyMap

\* Hset as a conditional write (HSETNX-like): an existing hash is kept.
HsetIfAbsent(st, key, fields) ==
    IF key \in DOMAIN st THEN st
    ELSE [k \in DOMAIN st \cup {key} |-> IF k = key THEN fields ELSE st[k]]

\* Hset that replaces only url and method of an existing hash (the write
\* split in several commands of which only the first arrives).
HsetPartialOverwrite(st, key, fields) ==
    LET old == Hgetall(st, key) IN
    [k \in DOMAIN st \cup {key} |->
        IF k = key
        THEN [f \in DOMAIN old \cup DOMAIN fields |->
                 IF f \in DOMAIN old /\ f \notin {"url", "method"}
                 THEN old[f] ELSE fields[f]]
        ELSE st[k]]

\* Hset that leaves the written hash as the only key of the database.
HsetReplacingDatabase(st, key, fields) ==
    [k \in {key} |-> fields]

\* HSET key f1 v1 ...: sets the given fields of the hash under the key,
\* creating it when absent; the hash's other fields are kept.
Hset(st, key, fields) ==
    LET old == Hgetall(st, key) IN
    [k \in DOMAIN st \cup {key} |->
        IF k = key
        THEN [f \in DOMAIN old \cup DOMAIN fields |->
                 IF f \in DOMAIN fields THEN fields[f] ELSE old[f]]
        ELSE st[k]]

\* KEYS endpoint:* : the existing keys with that prefix.
KeysMatching(st) == {k \in DOMAIN st : HasPrefix(k, KeyPrefix)}

\* The orders in which KEYS may report a set of keys.
Orderings(S) ==
    {o \in [1..Cardinality(S) -> S] : \A i, j \in DOMAIN o : o[i] = o[j] => i = j}

\* ------------------------------------------------------- request inputs

IdAb == <<"a", "b">>

IdC1 == <<"c", "-", "1">>

IdUpper == <<"A", "b">>

\* Identifiers a body may carry: two that match the grammar, one that
\* does not (uppercase first letter).
BodyIds == {IdAb, IdC1, IdUpper}

\* What may follow /endpoints/ in a request URL.
PathIds == {IdAb, IdC1, IdUpper}

PayloadA(id) ==
    [json |-> TRUE, identifier |-> id,
     url |-> [scheme |-> "https", rest |-> "//example.com/health"],
     method |-> "GET", status_online |-> 200,
     frequency |-> <<"3", "0", "s">>, fail_after |-> 3]

PayloadB(id) ==
    [json |-> TRUE, identifier |-> id,
     url |-> [scheme |-> "HTTP", rest |-> "//example.org"],
     method |-> "HEAD", status_online |-> 204,
     frequency |-> <<"9", "0", "s">>, fail_after |-> 10]

\* Bodies EndpointFromJSON accepts: one payload per identifier, and a
\* second, different in every other field, for one of them.
GoodBodies == {PayloadA(id) : id \in BodyIds} \cup {PayloadB(IdAb)}

\* Bodies it rejects: not JSON, URL without scheme, duration without
\* unit, status_online beyond uint16, fail_after beyond uint8.
BadBodies ==
    { [PayloadA(IdAb) EXCEPT !.json = FALSE],
      [PayloadA(IdAb) EXCEPT !.url = [scheme |-> "", rest |-> "bad"]],
      [PayloadA(IdAb) EXCEPT !.frequency = <<"3", "0">>],
      [PayloadA(IdAb) EXCEPT !.status_online = 65536],
      [PayloadA(IdAb) EXCEPT !.fail_after = 256] }

NoBody == [PayloadA(<<>>) EXCEPT !.json = FALSE]

ItemRequests ==
    {[method |-> "GET", url |-> EndpointsPrefix \o id, body |-> NoBody] : id \in PathIds}
    \cup {[method |-> "DELETE", url |-> EndpointsPrefix \o IdAb, body |-> NoBody]}
    \cup {[method |-> "POST", url |-> EndpointsPrefix \o id, body |-> b] :
              id \in PathIds, b \in GoodBodies}
    \cup {[method |-> "POST", url |-> EndpointsPrefix \o IdAb, body |-> b] :
              b \in BadBodies}

ListRequests ==
    {[method |-> m, url |-> EndpointsPath, body |-> NoBody] : m \in {"GET", "POST"}}

NoRequest == [method |-> "", url |-> <<>>, body |-> NoBody]

\* --------------------------------------------------------- handler state

\* cmds counts the store commands the handler has issued (client.Do calls).
NoLocal == [endpoint |-> <<>>, key |-> <<>>, status |-> 0, keys |-> <<>>,
            payloads |-> <<>>, err |-> FALSE, cmds |-> 0]

\* writes counts the handler's calls of w.WriteHeader and w.Write.
NoResponse == [status |-> 0, kind |-> "none", body |-> <<>>, writes |-> 0]

\* w.WriteHeader(status) with nothing written: an empty body.
StatusOnly(code) ==
    [status |-> code, kind |-> "none", body |-> <<>>, writes |-> 1]

\* w.Write(payload) with no header written before: status 200.
WriteObject(payload) ==
    [status |-> 200, kind |-> "object", body |-> <<payload>>, writes |-> 1]

WriteArray(payloads) ==
    [status |-> 200, kind |-> "array", body |-> payloads, writes |-> 1]

Quiet == \A q \in Procs : pc[q] \in {"idle", "done"}

Init ==
    /\ store = [k \in {} |-> EmptyMap]
    /\ pc = [p \in Procs |-> "idle"]
    /\ req = [p \in Procs |-> NoRequest]
    /\ local = [p \in Procs |-> NoLocal]
    /\ resp = [p \in Procs |-> NoResponse]
    /\ latest = "none"
    /\ prev = "none"
    /\ created = [id \in BodyIds |-> 0]
    /\ nreq = 0

\* A connection takes its next request r; with `alone` set, only when no
\* other request is in progress.
Accept(p, r, alone) ==
    /\ pc[p] \in {"idle", "done"}
    /\ nreq < MaxRequests
    /\ alone => Quiet
    /\ nreq' = nreq + 1
    /\ req' = [req EXCEPT ![p] = r]
    /\ latest' = p
    /\ prev' = latest

\* The handler of p ends with response r.
Respond(p, r) ==
    /\ pc' = [pc EXCEPT ![p] = "done"]
    /\ resp' = [resp EXCEPT ![p] = r]

\* The handler of p goes on to step `next`.
Goto(p, next) ==
    /\ pc' = [pc EXCEPT ![p] = next]
    /\ resp' = [resp EXCEPT ![p] = NoResponse]

\* StoreError that still writes what the handler had collected.
StoreErrorWithPartialBody(p) ==
    /\ local' = [local EXCEPT ![p].err = TRUE, ![p].cmds = @ + 1]
    /\ Respond(p, [status |-> 500, kind |-> "array",
                   body |-> local[p].payloads, writes |-> 2])

\* A store command failed (client.Do returned an error): 500.
StoreError(p) ==
    /\ local' = [local EXCEPT ![p].err = TRUE, ![p].cmds = @ + 1]
    /\ Respond(p, StatusOnly(500))

\* main's handler for /endpoints/ : a method other than GET and POST.
MethodNotAllowed(p, alone) ==
    \E r \in ItemRequests :
        /\ r.method \notin {"GET", "POST"}
        /\ Accept(p, r, alone)
        /\ local' = [local EXCEPT ![p] = NoLocal]
        /\ Respond(p, StatusOnly(405))
        /\ UNCHANGED <<store, created>>

\* getEndpoint up to its store read (lines 83-91).
GetEndpointStart(p, alone) ==
    \E r \in ItemRequests :
        /\ r.method = "GET"
        /\ Accept(p, r, alone)
        /\ LET identifier == extractEndpointIdentifier(r.url) IN
           IF identifier.err
           THEN /\ local' = [local EXCEPT ![p] = NoLocal]
                /\ Respond(p, StatusOnly(400))
           ELSE /\ local' = [local EXCEPT ![p] =
                                [NoLocal EXCEPT !.key = EndpointKey(identifier.val)]]
                /\ Goto(p, "get_hgetall")
        /\ UNCHANGED <<store, created>>

\* GetEndpointHgetall with the `return` of line 101 missing: after the 404
\* the handler goes on, fails to decode the empty map and calls
\* WriteHeader(500) as well (which net/http ignores).
GetEndpointHgetallMissingReturn(p) ==
    /\ pc[p] = "get_hgetall"
    /\ \E err \in BOOLEAN :
         IF err THEN StoreError(p)
         ELSE /\ local' = [local EXCEPT ![p].cmds = @ + 1]
              /\ LET kvs == Hgetall(store, local[p].key) IN
                 IF DOMAIN kvs = {}
                 THEN Respond(p, [StatusOnly(404) EXCEPT !.writes = 2])
                 ELSE LET endpoint == EndpointFromMap(kvs) IN
                      IF endpoint.err THEN Respond(p, StatusOnly(500))
                      ELSE Respond(p, WriteObject(EndpointJSON(endpoint.val)))
    /\ UNCHANGED <<store, req, latest, prev, created, nreq>>

\* getEndpoint that leaves an empty hash under a key it did not find.
GetEndpointHgetallCreatesMissing(p) ==
    /\ pc[p] = "get_hgetall"
    /\ \E err \in BOOLEAN :
         IF err THEN StoreError(p) /\ store' = store
         ELSE /\ local' = [local EXCEPT ![p].cmds = @ + 1]
              /\ LET kvs == Hgetall(store, local[p].key) IN
                 IF DOMAIN kvs = {}
                 THEN /\ Respond(p, StatusOnly(404))
                      /\ store' = [k \in DOMAIN store \cup {local[p].key} |->
                                      Hgetall(store, k)]
                 ELSE /\ store' = store
                      /\ LET endpoint == EndpointFromMap(kvs) IN
                         IF endpoint.err THEN Respond(p, StatusOnly(500))
                         ELSE Respond(p, WriteObject(EndpointJSON(endpoint.val)))
    /\ UNCHANGED <<req, latest, prev, created, nreq>>

\* getEndpoint from its HGETALL to the response (lines 92-115).
GetEndpointHgetall(p) ==
    /\ pc[p] = "get_hgetall"
    /\ \E err \in BOOLEAN :
         IF err THEN StoreError(p)
         ELSE /\ local' = [local EXCEPT ![p].cmds = @ + 1]
              /\ LET kvs == Hgetall(store, local[p].key) IN
                 IF DOMAIN kvs = {} THEN Respond(p, StatusOnly(404))
                 ELSE LET endpoint == EndpointFromMap(kvs) IN
                      IF endpoint.err THEN Respond(p, StatusOnly(500))
                      ELSE Respond(p, WriteObject(EndpointJSON(endpoint.val)))
    /\ UNCHANGED <<store, req, latest, prev, created, nreq>>

\* postEndpoint that sends its existence check before it looks at the
\* result of decoding the body.
PostEndpointStartChecksStoreFirst(p, alone) ==
    \E r \in ItemRequests :
        /\ r.method = "POST"
        /\ Accept(p, r, alone)
        /\ LET endpoint == EndpointFromJSON(r.body) IN
           IF endpoint.err
           THEN /\ local' = [local EXCEPT ![p] = [NoLocal EXCEPT !.cmds = 1]]
                /\ Respond(p, StatusOnly(400))
           ELSE /\ local' = [local EXCEPT ![p] =
                                [NoLocal EXCEPT !.endpoint = endpoint.val,
                                                !.key = EndpointKey(endpoint.val.Identifier)]]
                /\ Goto(p, "post_hgetall")
        /\ UNCHANGED <<store, created>>

\* postEndpoint that builds its key from the identifier of the path.
PostEndpointStartKeyFromPath(p, alone) ==
    \E r \in ItemRequests :
        /\ r.method = "POST"
        /\ Accept(p, r, alone)
        /\ LET endpoint == EndpointFromJSON(r.body) IN
           IF endpoint.err
           THEN /\ local' = [local EXCEPT ![p] = NoLocal]
                /\ Respond(p, StatusOnly(400))
           ELSE /\ local' = [local EXCEPT ![p] =
                                [NoLocal EXCEPT !.endpoint = endpoint.val,
                                                !.key = EndpointKey(TrimPrefix(r.url, EndpointsPrefix))]]
                /\ Goto(p, "post_hgetall")
        /\ UNCHANGED <<store, created>>

\* postEndpoint up to its existence check (lines 119-130).
PostEndpointStart(p, alone) ==
    \E r \in ItemRequests :
        /\ r.method = "POST"
        /\ Accept(p, r, alone)
        /\ LET endpoint == EndpointFromJSON(r.body) IN
           IF endpoint.err
           THEN /\ local' = [local EXCEPT ![p] = NoLocal]
                /\ Respond(p, StatusOnly(400))
           ELSE /\ local' = [local EXCEPT ![p] =
                                [NoLocal EXCEPT !.endpoint = endpoint.val,
                                                !.key = EndpointKey(endpoint.val.Identifier)]]
                /\ Goto(p, "post_hgetall")
        /\ UNCHANGED <<store, created>>

\* postEndpoint's existence check and create-or-update decision
\* (lines 132-157).
PostEndpointHgetall(p) ==
    /\ pc[p] = "post_hgetall"
    /\ \E err \in BOOLEAN :
         IF err THEN StoreError(p)
         ELSE LET existing == Hgetall(store, local[p].key)
                  exists   == DOMAIN existing # {}
                  identifierPathParam == extractEndpointIdentifier(req[p].url)
              IN  IF exists
                  THEN IF identifierPathParam.err
                       THEN /\ Respond(p, StatusOnly(400))
                            /\ local' = [local EXCEPT ![p].cmds = @ + 1]
                       ELSE IF identifierPathParam.val # local[p].endpoint.Identifier
                            THEN /\ Respond(p, StatusOnly(400))
                                 /\ local' = [local EXCEPT ![p].cmds = @ + 1]
                            ELSE /\ local' = [local EXCEPT ![p].status = 204,
                                                           ![p].cmds = @ + 1]
                                 /\ Goto(p, "post_hset")
                  ELSE /\ local' = [local EXCEPT ![p].status = 201,
                                                 ![p].cmds = @ + 1]
                       /\ Goto(p, "post_hset")
    /\ UNCHANGED <<store, req, latest, prev, created, nreq>>

\* postEndpoint's HSET and response (lines 159-171).
PostEndpointHset(p) ==
    /\ pc[p] = "post_hset"
    /\ \E err \in BOOLEAN :
         IF err
         THEN /\ StoreError(p)
              /\ UNCHANGED <<store, created>>
         ELSE /\ store' = Hset(store, local[p].key, FlatFields(local[p].endpoint))
              /\ Respond(p, StatusOnly(local[p].status))
              /\ created' = IF local[p].status = 201
                            THEN [created EXCEPT ![local[p].endpoint.Identifier] = @ + 1]
                            ELSE created
              /\ local' = [local EXCEPT ![p].cmds = @ + 1]
    /\ UNCHANGED <<req, latest, prev, nreq>>

\* GetEndpointsStart without the method check of lines 175-180.
GetEndpointsStartAnyMethod(p, alone) ==
    \E r \in ListRequests :
        /\ Accept(p, r, alone)
        /\ local' = [local EXCEPT ![p] = NoLocal]
        /\ Goto(p, "list_keys")
        /\ UNCHANGED <<store, created>>

\* getEndpoints up to its KEYS call (lines 175-182).
GetEndpointsStart(p, alone) ==
    \E r \in ListRequests :
        /\ Accept(p, r, alone)
        /\ local' = [local EXCEPT ![p] = NoLocal]
        /\ IF r.method # "GET" THEN Respond(p, StatusOnly(405))
           ELSE Goto(p, "list_keys")
        /\ UNCHANGED <<store, created>>

\* getEndpoints' KEYS call (lines 183-189); with no key the loop body
\* never runs and the empty array is written at once.
GetEndpointsKeys(p) ==
    /\ pc[p] = "list_keys"
    /\ \E err \in BOOLEAN :
         IF err THEN StoreError(p)
         ELSE \E keys \in Orderings(KeysMatching(store)) :
                  /\ local' = [local EXCEPT ![p].keys = keys, ![p].cmds = @ + 1]
                  /\ IF keys = <<>> THEN Respond(p, WriteArray(<<>>))
                     ELSE Goto(p, "list_hgetall")
    /\ UNCHANGED <<store, req, latest, prev, created, nreq>>

\* One turn of getEndpoints' loop (lines 190-208) and, after the last
\* key, the response (lines 209-215).
GetEndpointsHgetall(p) ==
    /\ pc[p] = "list_hgetall"
    /\ \E err \in BOOLEAN :
         IF err THEN StoreError(p)
         ELSE LET key      == local[p].keys[Len(local[p].payloads) + 1]
                  kvs      == Hgetall(store, key)
                  payloads == Append(local[p].payloads, ListPayload(kvs))
              IN  /\ local' = [local EXCEPT ![p].payloads = payloads,
                                            ![p].cmds = @ + 1]
                  /\ IF Len(payloads) = Len(local[p].keys)
                     THEN Respond(p, WriteArray(payloads))
                     ELSE Goto(p, "list_hgetall")
    /\ UNCHANGED <<store, req, latest, prev, created, nreq>>

\* Requests handled concurrently, one per connection.
Next ==
    \/ \E p \in Procs : MethodNotAllowed(p, FALSE)
    \/ \E p \in Procs : GetEndpointStart(p, FALSE)
    \/ \E p \in Procs : GetEndpointHgetall(p)
    \/ \E p \in Procs : PostEndpointStart(p, FALSE)
    \/ \E p \in Procs : PostEndpointHgetall(p)
    \/ \E p \in Procs : PostEndpointHset(p)
    \/ \E p \in Procs : GetEndpointsStart(p, FALSE)
    \/ \E p \in Procs : GetEndpointsKeys(p)
    \/ \E p \in Procs : GetEndpointsHgetall(p)

Spec == Init /\ [][Next]_vars

\* Requests handled one after the other: a request is accepted only when
\* no other is in progress.
SeqNext ==
    \/ \E p \in Procs : MethodNotAllowed(p, TRUE)
    \/ \E p \in Procs : GetEndpointStart(p, TRUE)
    \/ \E p \in Procs : GetEndpointHgetall(p)
    \/ \E p \in Procs : PostEndpointStart(p, TRUE)
    \/ \E p \in Procs : PostEndpointHgetall(p)
    \/ \E p \in Procs : PostEndpointHset(p)
    \/ \E p \in Procs : GetEndpointsStart(p, TRUE)
    \/ \E p \in Procs : GetEndpointsKeys(p)
    \/ \E p \in Procs : GetEndpointsHgetall(p)

SeqSpec == Init /\ [][SeqNext]_vars

\* ------------------------------------------- reading a shared database
\* The database is an external server: the hashes under endpoint:* are
\* whatever its clients left there, not only what postEndpoint wrote.

\* Twenty nines followed by a letter: digits beyond 64 bits, then a
\* character that is not a digit.
LongDigitsThenLetter ==
    <<"9", "9", "9", "9", "9", "9", "9", "9", "9", "9",
      "9", "9", "9", "9", "9", "9", "9", "9", "9", "9", "x">>

\* Texts found in a numeric field: a decimal number, a word, nothing,
\* digits followed by a letter, and more digits than 64 bits hold
\* followed by a letter.
StoredNumberTexts ==
    {<<"7">>, <<"o", "k">>, <<>>, <<"1", "2", "x">>, LongDigitsThenLetter}

\* The record of PayloadA(id) with its two numeric fields as found.
HashWithNumbers(id, so, fa) ==
    [FlatFields(EndpointFromJSON(PayloadA(id)).val)
        EXCEPT !["status_online"] = so, !["fail_after"] = fa]

\* The databases the handlers are started on: possibly a well-formed
\* record for c-1, possibly a record for ab with any of the texts in its
\* numeric fields.
FoundStores ==
    LET abHashes == {HashWithNumbers(IdAb, so, fa) :
                        so \in StoredNumberTexts, fa \in StoredNumberTexts}
        c1Hash   == FlatFields(EndpointFromJSON(PayloadA(IdC1)).val)
    IN  {[k \in {} |-> EmptyMap]}
        \cup {[k \in {EndpointKey(IdC1)} |-> c1Hash]}
        \cup {[k \in {EndpointKey(IdAb)} |-> h] : h \in abHashes}
        \cup {[k \in {EndpointKey(IdAb), EndpointKey(IdC1)} |->
                  IF k = EndpointKey(IdAb) THEN h ELSE c1Hash] : h \in abHashes}

ReadInit ==
    /\ store \in FoundStores
    /\ pc = [p \in Procs |-> "idle"]
    /\ req = [p \in Procs |-> NoRequest]
    /\ local = [p \in Procs |-> NoLocal]
    /\ resp = [p \in Procs |-> NoResponse]
    /\ latest = "none"
    /\ prev = "none"
    /\ created = [id \in BodyIds |-> 0]
    /\ nreq = 0

\* The two reading handlers, served concurrently.
ReadNext ==
    \/ \E p \in Procs : GetEndpointStart(p, FALSE)
    \/ \E p \in Procs : GetEndpointHgetall(p)
    \/ \E p \in Procs : GetEndpointsStart(p, FALSE)
    \/ \E p \in Procs : GetEndpointsKeys(p)
    \/ \E p \in Procs : GetEndpointsHgetall(p)

ReadSpec == ReadInit /\ [][ReadNext]_vars

\* ----------------------------------------------------------- vocabulary

\* The identifier a request's path addresses: what follows /endpoints/.
PathId(r) == TrimPrefix(r.url, EndpointsPrefix)

IsItemPost(r) == r.method = "POST" /\ HasPrefix(r.url, EndpointsPrefix)

IsItemGet(r) == r.method = "GET" /\ HasPrefix(r.url, EndpointsPrefix)

IsListGet(r) == r.method = "GET" /\ r.url = EndpointsPath

\* This step ends the handling of p's request.
Completes(p) ==
    /\ pc'[p] = "done"
    /\ pc[p] # "done" \/ (nreq' # nreq /\ latest' = p)

\* The number of 201 responses sent so far.
TotalCreated == created[IdAb] + created[IdC1] + created[IdUpper]

\* A listing entry carries the six values of a stored hash.
EntryMatchesHash(entry, hash) ==
    /\ DOMAIN hash = FieldNames
    /\ entry.identifier = hash["identifier"]
    /\ entry.url = hash["url"]
    /\ entry.method = hash["method"]
    /\ Itoa(entry.status_online) = hash["status_online"]
    /\ entry.frequency = hash["frequency"]
    /\ Itoa(entry.fail_after) = hash["fail_after"]

\* --------------------------------------------------------------- claims

\* C1: a POST whose path identifier already has a record and whose body
\* carries a different identifier is answered 400 and leaves the store as
\* it was.  (Requests one after the other; store commands succeed.)
C1_MismatchRejected ==
    [][\A p \in Procs :
          (/\ Completes(p)
           /\ IsItemPost(req'[p])
           /\ EndpointKey(PathId(req'[p])) \in DOMAIN store
           /\ req'[p].body.identifier # PathId(req'[p])
           /\ ~local'[p].err)
          => (resp'[p].status = 400 /\ store' = store)]_vars

\* C2: a POST whose path identifier does not match the grammar is
\* answered 400 and writes nothing, whatever the store holds.
C2_InvalidPathRejected ==
    [][\A p \in Procs :
          (/\ Completes(p)
           /\ IsItemPost(req'[p])
           /\ extractEndpointIdentifier(req'[p].url).err
           /\ ~local'[p].err)
          => (resp'[p].status = 400 /\ store' = store)]_vars

\* C3, first half: a well-formed POST to a grammar-valid path identifier
\* that has no record is answered 201.
C3_NewIdentifierCreated ==
    \A p \in Procs :
        (/\ Completes(p)
         /\ IsItemPost(req'[p])
         /\ ~extractEndpointIdentifier(req'[p].url).err
         /\ ~EndpointFromJSON(req'[p].body).err
         /\ EndpointKey(PathId(req'[p])) \notin DOMAIN store
         /\ ~local'[p].err)
        => resp'[p].status = 201

\* C3, second half: the GET for the same path that follows a POST
\* answered 201 returns 200 with the six submitted values.
C3_ReadsBackSubmitted ==
    \A p, q \in Procs :
        (/\ p = prev /\ q = latest /\ p # q
         /\ pc[p] = "done" /\ pc[q] = "done"
         /\ IsItemPost(req[p]) /\ resp[p].status = 201
         /\ IsItemGet(req[q]) /\ req[q].url = req[p].url
         /\ ~extractEndpointIdentifier(req[q].url).err
         /\ ~local[q].err)
        => /\ resp[q].status = 200
           /\ resp[q].kind = "object"
           /\ resp[q].body = <<EndpointJSON(EndpointFromJSON(req[p].body).val)>>

\* C3: create-then-read, requests one after the other: a POST for a path
\* identifier without a record returns 201 and the GET that follows for
\* that path returns 200 with exactly the submitted fields.
C3_CreateThenRead ==
    [][C3_NewIdentifierCreated]_vars /\ []C3_ReadsBackSubmitted

\* C4: a POST to an identifier that already has a record, the body's
\* identifier equal to the path's, is answered 204 and the stored record
\* is then exactly the six values of the new payload.
C4_UpdateReplaces ==
    [][\A p \in Procs :
          (/\ Completes(p)
           /\ IsItemPost(req'[p])
           /\ ~EndpointFromJSON(req'[p].body).err
           /\ req'[p].body.identifier = PathId(req'[p])
           /\ EndpointKey(PathId(req'[p])) \in DOMAIN store
           /\ ~local'[p].err)
          => /\ resp'[p].status = 204
             /\ store'[EndpointKey(PathId(req'[p]))]
                    = FlatFields(EndpointFromJSON(req'[p].body).val)]_vars

\* C5: every stored record's identifier matches the naming grammar.
C5_StoredIdentifiersValid ==
    \A k \in DOMAIN store :
        /\ "identifier" \in DOMAIN store[k]
        /\ MatchesIdentifierPattern(store[k]["identifier"])

\* C6: with requests one after the other, a listing answered 200 has as
\* many entries as creations were answered 201, one entry per created
\* identifier, each carrying the six values stored for it.
C6_ListingComplete ==
    \A p \in Procs :
        (/\ p = latest /\ pc[p] = "done"
         /\ IsListGet(req[p]) /\ resp[p].status = 200)
        => /\ resp[p].kind = "array"
           /\ Len(resp[p].body) = TotalCreated
           /\ \A id \in BodyIds :
                 created[id] = 1 <=>
                    \E i \in 1..Len(resp[p].body) : resp[p].body[i].identifier = id
           /\ \A i \in 1..Len(resp[p].body) :
                 LET key == EndpointKey(resp[p].body[i].identifier) IN
                 /\ key \in DOMAIN store
                 /\ EntryMatchesHash(resp[p].body[i], store[key])

\* C6 witness: a listing of two created records has been returned.
C6_Witness ==
    \E p \in Procs :
        /\ p = latest /\ pc[p] = "done"
        /\ IsListGet(req[p]) /\ resp[p].status = 200
        /\ Len(resp[p].body) = 2
        /\ TotalCreated = 2

\* C7: when a creation writes after a concurrent creation of the same
\* identifier already did (both existence checks saw no record), it is
\* still answered 201 and its payload replaces the first one's.
C7_SecondCreationOverwrites ==
    [][\A p \in Procs :
          (/\ pc[p] = "post_hset" /\ pc'[p] = "done"
           /\ local[p].status = 201
           /\ local[p].key \in DOMAIN store
           /\ ~local'[p].err)
          => /\ resp'[p].status = 201
             /\ store'[local[p].key] = FlatFields(local[p].endpoint)]_vars

\* C7 witness: two POSTs with different payloads for one new identifier
\* have both been answered 201, and the store holds the payload of one.
C7_Witness ==
    \E p, q \in Procs :
        /\ p # q
        /\ pc[p] = "done" /\ pc[q] = "done"
        /\ IsItemPost(req[p]) /\ IsItemPost(req[q])
        /\ resp[p].status = 201 /\ resp[q].status = 201
        /\ local[p].key = local[q].key
        /\ local[p].endpoint # local[q].endpoint
        /\ created[local[p].endpoint.Identifier] = 2
        /\ store[local[p].key] = FlatFields(local[q].endpoint)
        /\ store[local[p].key] # FlatFields(local[p].endpoint)

\* C8: every key of the store is endpoint:<identifier> for one identifier
\* and holds a record with all six fields.
C8_RecordsComplete ==
    \A k \in DOMAIN store :
        /\ HasPrefix(k, KeyPrefix)
        /\ DOMAIN store[k] = FieldNames

\* C8 witness: a record has been created and then overwritten.
C8_Witness ==
    \E p \in Procs :
        /\ pc[p] = "done" /\ IsItemPost(req[p]) /\ resp[p].status = 204
        /\ store[local[p].key] = FlatFields(local[p].endpoint)

\* C9: a GET for a grammar-valid identifier for which no record was ever
\* created is answered 404 (store commands succeeding), whatever requests
\* on other identifiers came before.
C9_NeverCreatedNotFound ==
    \A p \in Procs :
        (/\ pc[p] = "done" /\ IsItemGet(req[p])
         /\ ~extractEndpointIdentifier(req[p].url).err
         /\ created[PathId(req[p])] = 0
         /\ ~local[p].err)
        => resp[p] = StatusOnly(404)

\* C9 witness: such a GET was answered while another identifier has a
\* record.
C9_Witness ==
    \E p \in Procs :
        /\ pc[p] = "done" /\ IsItemGet(req[p])
        /\ ~extractEndpointIdentifier(req[p].url).err
        /\ created[PathId(req[p])] = 0
        /\ resp[p].status = 404
        /\ TotalCreated >= 1

\* C10: a listing during which a store read failed is answered 500 with
\* an empty body, also when records had been read before the failure.
C10_ListingFailsWhole ==
    \A p \in Procs :
        (pc[p] = "done" /\ IsListGet(req[p]) /\ local[p].err)
        => (resp[p].status = 500 /\ resp[p].kind = "none" /\ resp[p].body = <<>>)

\* C10 witness: the listing failed after one record had been read.
C10_Witness ==
    \E p \in Procs :
        /\ pc[p] = "done" /\ IsListGet(req[p]) /\ local[p].err
        /\ Len(local[p].payloads) >= 1
        /\ resp[p].status = 500

\* A request whose method its route does not serve.
MethodNotServed(r) ==
    \/ HasPrefix(r.url, EndpointsPrefix) /\ r.method \notin {"GET", "POST"}
    \/ r.url = EndpointsPath /\ r.method # "GET"

\* C11: a request with a method other than GET or POST on /endpoints/{id},
\* or other than GET on /endpoints, is answered 405 and its handler issues
\* no store command at all.
C11_MethodNotAllowed ==
    \A p \in Procs :
        MethodNotServed(req[p])
        => /\ pc[p] = "done"
           /\ resp[p] = StatusOnly(405)
           /\ local[p].cmds = 0

\* C11 witness: a DELETE on /endpoints/ab and a POST on /endpoints have
\* both been answered while the store holds a record.
C11_Witness ==
    \E p, q \in Procs :
        /\ pc[p] = "done" /\ pc[q] = "done"
        /\ req[p].method = "DELETE" /\ HasPrefix(req[p].url, EndpointsPrefix)
        /\ req[q].method = "POST" /\ req[q].url = EndpointsPath
        /\ resp[p].status = 405 /\ resp[q].status = 405
        /\ DOMAIN store # {}

FailureStatuses == {400, 404, 405, 500}

SuccessStatuses == {200, 201, 204}

\* C12: a handler writes to the response exactly once, when it ends; the
\* status is one of the contract's, and with a failure status the body is
\* empty.
C12_OneStatusEmptyFailureBody ==
    \A p \in Procs :
        /\ pc[p] \notin {"idle", "done"} => resp[p] = NoResponse
        /\ pc[p] = "done" =>
              /\ resp[p].writes = 1
              /\ resp[p].status \in FailureStatuses \cup SuccessStatuses
              /\ resp[p].status \in FailureStatuses =>
                    (resp[p].kind = "none" /\ resp[p].body = <<>>)
              /\ resp[p].kind # "none" => resp[p].status = 200

\* C12 witness: a 404 and a 400 have been answered, each with one write
\* and no body.
C12_Witness ==
    \E p, q \in Procs :
        /\ pc[p] = "done" /\ pc[q] = "done"
        /\ resp[p] = StatusOnly(404)
        /\ resp[q] = StatusOnly(400)

\* C13: the create-or-update decision of a POST is taken on the record of
\* the path identifier: it is answered 201 only if no record existed under
\* the path identifier, and the record it writes is stored under that
\* identifier.  (Requests one after the other.)
C13_DecisionOnPathIdentifier ==
    [][\A p \in Procs :
          (/\ Completes(p)
           /\ IsItemPost(req'[p])
           /\ resp'[p].status = 201)
          => /\ EndpointKey(PathId(req'[p])) \notin DOMAIN store
             /\ EndpointKey(PathId(req'[p])) \in DOMAIN store'
             /\ store'[EndpointKey(PathId(req'[p]))]
                    = FlatFields(EndpointFromJSON(req'[p].body).val)]_vars

\* The flat forms of the payloads the clients submit.
SubmittedRecords == {FlatFields(EndpointFromJSON(b).val) : b \in GoodBodies}

\* C14, write side: the HSET of a POST leaves under its key the six
\* values of its own payload, whatever was there (last writer wins).
C14_LastWriterWins ==
    \A p \in Procs :
        (pc[p] = "post_hset" /\ pc'[p] = "done" /\ ~local'[p].err)
        => store'[local[p].key] = FlatFields(local[p].endpoint)

\* C14, read side: every stored record is the complete payload of one
\* submitted request, and so is every record a GET returned.
C14_NoMixture ==
    /\ \A k \in DOMAIN store : store[k] \in SubmittedRecords
    /\ \A p \in Procs :
          (pc[p] = "done" /\ IsItemGet(req[p]) /\ resp[p].status = 200)
          => \E b \in GoodBodies :
                resp[p].body = <<EndpointJSON(EndpointFromJSON(b).val)>>

\* C14: under any interleaving of POSTs to one identifier the stored
\* record is the whole payload of the last writer, never a mixture of two
\* payloads, and a concurrent GET never sees a mixture.
C14_WholeRecords == [][C14_LastWriterWins]_vars /\ []C14_NoMixture

\* C14 witness: a GET returned a record while a POST with another payload
\* for the same identifier stood between its existence check and its
\* write.
C14_Witness ==
    \E p, q \in Procs :
        /\ p # q
        /\ pc[p] = "done" /\ IsItemGet(req[p]) /\ resp[p].status = 200
        /\ pc[q] = "post_hset"
        /\ local[q].key = local[p].key
        /\ resp[p].body # <<EndpointJSON(local[q].endpoint)>>

\* A POST to an item path whose body does not decode into a definition.
MalformedPost(r) == IsItemPost(r) /\ EndpointFromJSON(r.body).err

\* C15: a POST whose body cannot be decoded is answered 400 before any
\* store command is sent, and the step that answers it leaves the store
\* as it was.
C15_MalformedRejectedFirst ==
    [][\A p \in Procs :
          (Completes(p) /\ MalformedPost(req'[p]))
          => /\ resp'[p] = StatusOnly(400)
             /\ local'[p].cmds = 0
             /\ pc[p] \in {"idle", "done"}
             /\ store' = store]_vars

\* C15 witness: a malformed POST was answered 400 while the store held
\* records and the other connection was in the middle of a write.
C15_Witness ==
    \E p, q \in Procs :
        /\ p # q
        /\ pc[p] = "done" /\ MalformedPost(req[p])
        /\ resp[p] = StatusOnly(400) /\ local[p].cmds = 0
        /\ pc[q] = "post_hset"
        /\ DOMAIN store # {}

\* C16: no step removes a record; the set of stored keys only grows.
C16_RecordsNeverRemoved ==
    [][\A k \in DOMAIN store : k \in DOMAIN store']_vars

\* C16 witness: with two records stored, a POST that updated one of them
\* has completed and both are still there.
C16_Witness ==
    \E p \in Procs :
        /\ pc[p] = "done" /\ IsItemPost(req[p]) /\ resp[p].status = 204
        /\ \E k \in DOMAIN store : k # local[p].key

\* The identifier a well-formed POST writes: the one its body carries.
WrittenId(r) == EndpointFromJSON(r.body).val.Identifier

\* C17, per step: a successful POST is answered 201 exactly when no
\* record was stored for the identifier it writes, 204 otherwise.
C17_CreatedIffAbsent ==
    \A p \in Procs :
        (/\ Completes(p) /\ IsItemPost(req'[p])
         /\ resp'[p].status \in {201, 204})
        => (resp'[p].status = 201
               <=> EndpointKey(WrittenId(req'[p])) \notin DOMAIN store)

\* C17, per state: every identifier was answered 201 at most once, and
\* exactly the identifiers answered 201 have a record.
C17_AtMostOneCreation ==
    \A id \in BodyIds :
        /\ created[id] <= 1
        /\ created[id] = 1 <=> EndpointKey(id) \in DOMAIN store

\* C17: when requests do not overlap, at most one POST per identifier is
\* answered 201: the first successful write of an identifier reports 201
\* and every later successful POST of that identifier reports 204.
C17_SingleCreation == []C17_AtMostOneCreation /\ [][C17_CreatedIffAbsent]_vars

\* C17 witness: an identifier was created once and two later POSTs of it
\* were both answered 204.
C17_Witness ==
    \E p, q \in Procs :
        /\ p # q
        /\ pc[p] = "done" /\ pc[q] = "done"
        /\ IsItemPost(req[p]) /\ IsItemPost(req[q])
        /\ resp[p].status = 204 /\ resp[q].status = 204
        /\ local[p].key = local[q].key
        /\ created[local[p].endpoint.Identifier] = 1

\* C18: every record is stored under the key of the identifier it
\* carries: for every key endpoint:<k> the identifier field is k.
C18_KeyMatchesIdentifier ==
    \A k \in DOMAIN store :
        /\ "identifier" \in DOMAIN store[k]
        /\ k = EndpointKey(store[k]["identifier"])

\* C18 witness: a POST whose path and body identifiers differ has created
\* a record, and another such POST was rejected against an existing one.
C18_Witness ==
    \E p, q \in Procs :
        /\ p # q
        /\ pc[p] = "done" /\ IsItemPost(req[p]) /\ resp[p].status = 201
        /\ PathId(req[p]) # local[p].endpoint.Identifier
        /\ pc[q] = "done" /\ IsItemPost(req[q]) /\ resp[q] = StatusOnly(400)
        /\ ~MalformedPost(req[q])
        /\ local[q].cmds = 1

\* This step is a step of p's handler: it accepts p's request, moves p
\* to another place of the handler, or is a turn of the listing's loop
\* (which issues a command and appends a payload).
Moves(p) ==
    \/ pc'[p] # pc[p]
    \/ local'[p] # local[p]
    \/ nreq' # nreq /\ latest' = p

\* C19: no step of the handling of a GET request, to an item path or to
\* the collection path, changes the store, whatever the outcome.
C19_ReadsLeaveStore ==
    [][\A p \in Procs :
          (Moves(p) /\ req'[p].method = "GET") => store' = store]_vars

\* C19 witness: over a non-empty store a GET of a record was answered 404
\* and a listing was answered 200.
C19_Witness ==
    \E p, q \in Procs :
        /\ p # q
        /\ pc[p] = "done" /\ IsItemGet(req[p]) /\ resp[p] = StatusOnly(404)
        /\ local[p].cmds = 1
        /\ pc[q] = "done" /\ IsListGet(req[q]) /\ resp[q].status = 200
        /\ DOMAIN store # {}

\* A text that is not a decimal number: not an optional sign followed by
\* one or more digits.
NotDecimal(s) ==
    LET d == IF s # <<>> /\ s[1] \in {"+", "-"} THEN Tail(s) ELSE s
    IN  d = <<>> \/ \E i \in 1..Len(d) : d[i] \notin Digit

\* The hash has a numeric field whose text is not a decimal number.
HasNotDecimal(kvs) ==
    NotDecimal(kvs["status_online"]) \/ NotDecimal(kvs["fail_after"])

\* C20: a listing whose store commands succeed is answered 200 with one
\* entry per stored record, and a numeric field whose stored text is not
\* a decimal number is 0 in the entry; GET /endpoints/{id} of a record
\* with such a field is answered 500, not a record with a 0.
C20_ListDefaultsItemFails ==
    \A p \in Procs :
        pc[p] = "done" =>
            /\ (IsListGet(req[p]) /\ ~local[p].err) =>
                  /\ resp[p].status = 200 /\ resp[p].kind = "array"
                  /\ Len(resp[p].body) = Cardinality(KeysMatching(store))
                  /\ Len(local[p].keys) = Len(resp[p].body)
                  /\ \A i \in 1..Len(resp[p].body) :
                        LET kvs   == store[local[p].keys[i]]
                            entry == resp[p].body[i]
                        IN  /\ entry.identifier = kvs["identifier"]
                            /\ NotDecimal(kvs["status_online"])
                                   => entry.status_online = 0
                            /\ NotDecimal(kvs["fail_after"])
                                   => entry.fail_after = 0
            /\ (/\ IsItemGet(req[p]) /\ local[p].cmds = 1
                /\ local[p].key \in DOMAIN store
                /\ HasNotDecimal(store[local[p].key]))
               => resp[p] = StatusOnly(500)

====
